---- MODULE Spec2Model ----
(***************************************************************************)
(* A model of ClusterRun.py: the dispatch of one batch of parameterised    *)
(* function calls to the SGE or Slurm backend (ClusterRun, ClusterRunSGE,  *)
(* ClusterRunSlurm) and the success policy over its results                *)
(* (ClusterChecked, ClusterCheckedSGE, ClusterCheckedSlurm).               *)
(*                                                                         *)
(* One behaviour is one call of one of the six public functions.  pc is    *)
(* the function (or the place inside a with block) control is in, stack    *)
(* the callers waiting for it.  Python values are modelled as follows:     *)
(*   - a dict or an object's __dict__ is a function from its keys;         *)
(*   - a result of the mapped function is the text of a Python literal,    *)
(*     and bool() gives its truth value;                                   *)
(*   - a str is a TLA+ string, str() of an int its decimal digits.         *)
(***************************************************************************)
EXTENDS Integers, Sequences, FiniteSets, TLC

VARIABLES call, pc, stack, args, kwargs, settings, parameter_list, view,
          view_request, map_calls, res, exc, msg, stdout, ret

vars == <<call, pc, stack, args, kwargs, settings, parameter_list, view,
          view_request, map_calls, res, exc, msg, stdout, ret>>

(***************************************************************************)
(* Bounds of the model.                                                    *)
(***************************************************************************)
\* the longest parameter_list that is submitted
MaxLen == 3

(***************************************************************************)
(* Python helpers.                                                         *)
(***************************************************************************)
Digit == <<"0", "1", "2", "3", "4", "5", "6", "7", "8", "9">>

\* str(n) for an int n >= 0
RECURSIVE str(_)
str(n) == IF n < 10 THEN Digit[n + 1]
          ELSE str(n \div 10) \o Digit[(n % 10) + 1]

\* the values the mapped function returns, as Python literals
ResultVals == {"True", "False", "None", "'ok'"}

\* bool(b): False and None are falsy, True and a non-empty str truthy
bool(b) == b \notin {"False", "None"}

\* min(a, b)
min(a, b) == IF b < a THEN b ELSE a

\* the empty dict
EmptyDict == [k \in {} |-> "None"]

\* d with d[k] = v
Put(d, k, v) == [j \in DOMAIN d \cup {k} |-> IF j = k THEN v ELSE d[j]]

(***************************************************************************)
(* The calls the model makes.                                              *)
(***************************************************************************)
ResourceNames == {"max_jobs", "cores_per_job", "mem"}

\* the value a caller passes positionally for a resource parameter
PosVal(k) == CASE k = "max_jobs" -> 1
               [] k = "cores_per_job" -> 2
               [] k = "mem" -> "1GB"

\* the value a caller passes by keyword
KwVal(k) == CASE k = "max_jobs" -> 2
              [] k = "cores_per_job" -> 3
              [] k = "mem" -> "2GB"
              [] k = "settings" -> "<Settings>"

\* the value a caller stores in a settings attribute
SetVal(k, sched) == CASE k = "max_jobs" -> 3
                      [] k = "cores_per_job" -> 4
                      [] k = "mem" -> "20GB"
                      [] k = "scheduler" -> sched

\* the scheduler tags a caller writes: the two of the usage example, and
\* the key of the dispatch table
SchedulerTags == {"sge", "slurm", "SGE"}

\* args of a call: function, parameter_list, then up to three positionals
PosArgs(k) == SubSeq(<<"function", "parameter_list", PosVal("max_jobs"),
                       PosVal("cores_per_job"), PosVal("mem")>>, 1, 2 + k)

KwDict(D) == [k \in D |-> KwVal(k)]

SettingsObjects ==
    {[k \in D |-> SetVal(k, "sge")] : D \in SUBSET ResourceNames}
    \cup {[k \in D \cup {"scheduler"} |-> SetVal(k, s)] :
              D \in SUBSET ResourceNames, s \in SchedulerTags}

DispatchEntries ==
    {"ClusterRun", "ClusterChecked", "ClusterCheckedSGE", "ClusterCheckedSlurm"}

BackendEntries == {"ClusterRunSGE", "ClusterRunSlurm"}

\* every call of a public function within the bounds
Calls ==
    {[entry |-> e, n |-> n, args |-> PosArgs(k), kwargs |-> KwDict(D),
      settings |-> EmptyDict] :
        e \in DispatchEntries \cup BackendEntries, n \in 0..MaxLen,
        k \in 0..3, D \in SUBSET ResourceNames}
    \cup
    {[entry |-> e, n |-> n, args |-> PosArgs(k),
      kwargs |-> KwDict(D \cup {"settings"}), settings |-> s] :
        e \in DispatchEntries, n \in 0..MaxLen, k \in 0..3,
        D \in SUBSET ResourceNames, s \in SettingsObjects}

(***************************************************************************)
(* Initial states: one call has been made and nothing has run yet.         *)
(***************************************************************************)
\* the i-th element of the submitted parameter_list
Param(i) == 7 * i

Init ==
    /\ call \in Calls
    /\ pc = call.entry
    /\ stack = <<>>
    /\ args = call.args
    /\ kwargs = call.kwargs
    /\ settings = call.settings
    /\ parameter_list = [i \in 1..call.n |-> Param(i)]
    /\ view = "none"
    /\ view_request = EmptyDict
    /\ map_calls = 0
    /\ res = <<>>
    /\ exc = "none"
    /\ msg = ""
    /\ stdout = <<>>
    /\ ret = [kind |-> "pending"]

\* an exception e (with message m) leaves the current function and, no
\* caller catching anything, every caller
Raise(e, m) ==
    /\ pc' = "raised"
    /\ stack' = <<>>
    /\ exc' = e
    /\ msg' = m

(***************************************************************************)
(* ClusterCheckedSGE, ClusterCheckedSlurm.                                 *)
(***************************************************************************)
\* ForceScheduler with the tag set only when the object has none
ForceScheduler_keep(kw, s, tag) ==
    [kwargs |-> Put(kw, "settings", "<Settings>"),
     settings |-> IF "settings" \in DOMAIN kw /\ "scheduler" \in DOMAIN s
                  THEN s
                  ELSE Put(IF "settings" \in DOMAIN kw THEN s ELSE EmptyDict,
                           "scheduler", tag)]

\* settings = kwargs.get('settings', Settings()); settings.scheduler = tag;
\* kwargs['settings'] = settings
ForceScheduler(kw, s, tag) ==
    [kwargs |-> Put(kw, "settings", "<Settings>"),
     settings |-> Put(IF "settings" \in DOMAIN kw THEN s ELSE EmptyDict,
                      "scheduler", tag)]

ClusterCheckedSGE ==
    /\ pc = "ClusterCheckedSGE"
    /\ LET f == ForceScheduler(kwargs, settings, "sge")
       IN /\ kwargs' = f.kwargs
          /\ settings' = f.settings
    /\ pc' = "ClusterChecked"
    /\ stack' = Append(stack, "ClusterCheckedSGE")
    /\ UNCHANGED <<call, args, parameter_list, view, view_request, map_calls,
                   res, exc, msg, stdout, ret>>

ClusterCheckedSlurm ==
    /\ pc = "ClusterCheckedSlurm"
    /\ LET f == ForceScheduler(kwargs, settings, "slurm")
       IN /\ kwargs' = f.kwargs
          /\ settings' = f.settings
    /\ pc' = "ClusterChecked"
    /\ stack' = Append(stack, "ClusterCheckedSlurm")
    /\ UNCHANGED <<call, args, parameter_list, view, view_request, map_calls,
                   res, exc, msg, stdout, ret>>

(***************************************************************************)
(* ClusterRun: the dispatcher.                                             *)
(***************************************************************************)
\* mapping = {'sge': ClusterRunSGE, 'slurm': ClusterRunSlurm}
mapping == [sge |-> "ClusterRunSGE", slurm |-> "ClusterRunSlurm"]

\* dispatch: mapping['sge'], or mapping[kwargs['settings'].scheduler] when
\* settings is given; the name of the exception when that lookup raises
Dispatch(kw, s) ==
    IF "settings" \notin DOMAIN kw THEN mapping["sge"]
    ELSE IF "scheduler" \notin DOMAIN s THEN "AttributeError"
    ELSE IF s.scheduler \notin DOMAIN mapping THEN "KeyError"
    ELSE mapping[s.scheduler]

\* max_jobs = 100; cores_per_job = 1; mem = '5GB'
Hardcoded(name) == CASE name = "max_jobs" -> 100
                     [] name = "cores_per_job" -> 1
                     [] name = "mem" -> "5GB"

\* the default after the settings block: the attribute when settings is
\* given and has it in its __dict__
Inherited(name, kw, s) ==
    IF "settings" \in DOMAIN kw /\ name \in DOMAIN s THEN s[name]
    ELSE Hardcoded(name)

\* the index in args (Python, from 0) of a resource parameter
ArgIndex(name) == CASE name = "max_jobs" -> 2
                    [] name = "cores_per_job" -> 3
                    [] name = "mem" -> 4

\* if len(args) > i: v = args[i]  elif name in kwargs: v = kwargs[name]
Resolved(name, a, kw, s) ==
    IF Len(a) > ArgIndex(name) THEN a[ArgIndex(name) + 1]
    ELSE IF name \in DOMAIN kw THEN kw[name]
    ELSE Inherited(name, kw, s)

\* kwargs after kwargs.pop('settings') and the pops of the elif branches:
\* a resource keyword stays when the positional branch was taken
Leftover(a, kw) ==
    [k \in {j \in DOMAIN kw \ {"settings"} : Len(a) > ArgIndex(j)} |-> kw[k]]

\* the keywords the dispatch call writes out for a backend
Explicit(d) == IF d = mapping["sge"] THEN {"max_jobs", "cores_per_job"}
               ELSE {"max_jobs", "cores_per_job", "mem"}

\* the whole of ClusterRun up to the call of dispatch: the exception it
\* raises ("none" when the call is made), the backend and the call's
\* arguments
ClusterRunCall(a, kw, s) ==
    LET d == Dispatch(kw, s)
        left == Leftover(a, kw)
    IN IF d \in {"AttributeError", "KeyError"}
       THEN [exc |-> d, dispatch |-> "none", args |-> <<>>,
             kwargs |-> EmptyDict]
       ELSE IF DOMAIN left \cap Explicit(d) # {}
       THEN \* dispatch(max_jobs=..., **kwargs): a keyword given twice
            [exc |-> "TypeError", dispatch |-> d, args |-> <<>>,
             kwargs |-> EmptyDict]
       ELSE [exc |-> "none", dispatch |-> d, args |-> SubSeq(a, 1, 2),
             kwargs |-> [k \in Explicit(d) \cup DOMAIN left |->
                            IF k \in Explicit(d) THEN Resolved(k, a, kw, s)
                            ELSE left[k]]]

ClusterRun ==
    /\ pc = "ClusterRun"
    /\ LET c == ClusterRunCall(args, kwargs, settings)
       IN IF c.exc # "none"
          THEN /\ Raise(c.exc, IF c.exc = "KeyError" THEN settings.scheduler
                               ELSE "")
               /\ UNCHANGED <<args, kwargs>>
          ELSE /\ pc' = c.dispatch
               /\ stack' = Append(stack, "ClusterRun")
               /\ args' = c.args
               /\ kwargs' = c.kwargs
               /\ UNCHANGED <<exc, msg>>
    /\ UNCHANGED <<call, settings, parameter_list, view, view_request,
                   map_calls, res, stdout, ret>>

(***************************************************************************)
(* ClusterRunSGE, ClusterRunSlurm: the backends.                           *)
(***************************************************************************)
\* the parameters after function and parameter_list
SGEParams == <<"max_jobs", "cores_per_job">>
SlurmParams == <<"max_jobs", "cores_per_job", "mem">>

\* the defaults of the two signatures
SGEDefault(name) == CASE name = "max_jobs" -> 100
                      [] name = "cores_per_job" -> 1
SlurmDefault(name) == CASE name = "max_jobs" -> 64
                        [] name = "cores_per_job" -> 1
                        [] name = "mem" -> "5GB"

\* Python refuses the call (TypeError): too many positionals, an unknown
\* keyword, or a parameter given both positionally and by keyword
BindError(params, a, kw) ==
    \/ Len(a) - 2 > Len(params)
    \/ \E k \in DOMAIN kw : \A i \in 1..Len(params) : params[i] # k
    \/ \E i \in 1..Len(params) : i <= Len(a) - 2 /\ params[i] \in DOMAIN kw

\* the value parameter number i (from 1) named name is bound to
Bound(name, i, a, kw, default) ==
    IF Len(a) - 2 >= i THEN a[2 + i]
    ELSE IF name \in DOMAIN kw THEN kw[name]
    ELSE default

\* NumJobs without the min: max_jobs engines whatever the batch
NumJobs_nomin(pl, max_jobs) == max_jobs

\* num_jobs = len(parameter_list); num_jobs = min(num_jobs, max_jobs)
NumJobs(pl, max_jobs) == min(Len(pl), max_jobs)

\* the arguments of cluster_view in ClusterRunSGE
SGEView(pl, a, kw) ==
    [scheduler |-> "sge", queue |-> "RAM.q",
     num_jobs |-> NumJobs(pl, Bound("max_jobs", 1, a, kw,
                                    SGEDefault("max_jobs"))),
     cores_per_job |-> Bound("cores_per_job", 2, a, kw,
                             SGEDefault("cores_per_job")),
     resources |-> "pename=python-round-robin"]

\* the arguments of cluster_view in ClusterRunSlurm, user being
\* os.environ["USER"]
SlurmView(pl, a, kw, user) ==
    [scheduler |-> "slurm", queue |-> "RAM",
     num_jobs |-> NumJobs(pl, Bound("max_jobs", 1, a, kw,
                                    SlurmDefault("max_jobs"))),
     cores_per_job |-> Bound("cores_per_job", 2, a, kw,
                             SlurmDefault("cores_per_job")),
     resources |-> "account=" \o user \o ";timelimit=7-00:00:00;mem="
                   \o Bound("mem", 3, a, kw, SlurmDefault("mem"))]

\* with cluster_view(...) as view: the request is made and the view is
\* entered, or the library raises and there is no view
EnterView(request, inside) ==
    /\ view_request' = request
    /\ \/ /\ view' = "open"
          /\ pc' = inside
          /\ UNCHANGED <<stack, exc, msg>>
       \/ /\ view' = "none"
          /\ Raise("BackendError", "")

ClusterRunSGE ==
    /\ pc = "ClusterRunSGE"
    /\ IF BindError(SGEParams, args, kwargs)
       THEN /\ Raise("TypeError", "")
            /\ UNCHANGED <<view, view_request>>
       ELSE EnterView(SGEView(parameter_list, args, kwargs),
                      "ClusterRunSGE.map")
    /\ UNCHANGED <<call, args, kwargs, settings, parameter_list, map_calls,
                   res, stdout, ret>>

ClusterRunSlurm ==
    /\ pc = "ClusterRunSlurm"
    /\ IF BindError(SlurmParams, args, kwargs)
       THEN /\ Raise("TypeError", "")
            /\ UNCHANGED <<view, view_request>>
       ELSE \/ EnterView(SlurmView(parameter_list, args, kwargs, "user"),
                         "ClusterRunSlurm.map")
            \/ \* USER is not in os.environ
               /\ Raise("KeyError", "USER")
               /\ UNCHANGED <<view, view_request>>
    /\ UNCHANGED <<call, args, kwargs, settings, parameter_list, map_calls,
                   res, stdout, ret>>

\* res = view.map(function, parameter_list): one result per parameter, in
\* order, or the exception of a worker or of the library, which is then
\* pending at the end of the with block
ViewMap(here, after) ==
    /\ pc = here
    /\ view = "open"
    /\ map_calls' = map_calls + 1
    /\ pc' = after
    /\ \/ /\ res' \in [1..Len(parameter_list) -> ResultVals]
          /\ UNCHANGED <<exc, msg>>
       \/ /\ exc' = "WorkerError"
          /\ UNCHANGED <<res, msg>>
    /\ UNCHANGED <<call, stack, args, kwargs, settings, parameter_list, view,
                   view_request, stdout, ret>>

\* ViewExit with the release written after map instead of in a with
\* block: an exception of map skips it
ViewExit_leak(here) ==
    /\ pc = here
    /\ IF exc # "none"
       THEN /\ pc' = "raised"
            /\ stack' = <<>>
            /\ UNCHANGED <<view, ret>>
       ELSE IF \E i \in 1..Len(stack) : stack[i] = "ClusterChecked"
       THEN /\ view' = "closed"
            /\ pc' = "ClusterChecked.policy"
            /\ stack' = SelectSeq(stack, LAMBDA f : f # "ClusterRun")
            /\ UNCHANGED ret
       ELSE /\ view' = "closed"
            /\ pc' = "returned"
            /\ stack' = <<>>
            /\ ret' = [kind |-> "list", value |-> res]
    /\ UNCHANGED <<call, args, kwargs, settings, parameter_list,
                   view_request, map_calls, res, exc, msg, stdout>>

\* ViewExit with the exception of map caught: the results so far are
\* returned as if map had ended
ViewExit_swallow(here) ==
    /\ pc = here
    /\ view' = "closed"
    /\ exc' = "none"
    /\ IF \E i \in 1..Len(stack) : stack[i] = "ClusterChecked"
       THEN /\ pc' = "ClusterChecked.policy"
            /\ stack' = SelectSeq(stack, LAMBDA f : f # "ClusterRun")
            /\ UNCHANGED ret
       ELSE /\ pc' = "returned"
            /\ stack' = <<>>
            /\ ret' = [kind |-> "list", value |-> res]
    /\ UNCHANGED <<call, args, kwargs, settings, parameter_list,
                   view_request, map_calls, res, msg, stdout>>

\* the end of the with block and "return res": the view is released; a
\* pending exception goes on to the callers, else res is returned through
\* ClusterRun to ClusterChecked or to the user
ViewExit(here) ==
    /\ pc = here
    /\ view' = "closed"
    /\ IF exc # "none"
       THEN /\ pc' = "raised"
            /\ stack' = <<>>
            /\ UNCHANGED ret
       ELSE IF \E i \in 1..Len(stack) : stack[i] = "ClusterChecked"
       THEN /\ pc' = "ClusterChecked.policy"
            /\ stack' = SelectSeq(stack, LAMBDA f : f # "ClusterRun")
            /\ UNCHANGED ret
       ELSE /\ pc' = "returned"
            /\ stack' = <<>>
            /\ ret' = [kind |-> "list", value |-> res]
    /\ UNCHANGED <<call, args, kwargs, settings, parameter_list,
                   view_request, map_calls, res, exc, msg, stdout>>

ClusterRunSGE_map == ViewMap("ClusterRunSGE.map", "ClusterRunSGE.exit")
ClusterRunSGE_exit == ViewExit("ClusterRunSGE.exit")
ClusterRunSlurm_map == ViewMap("ClusterRunSlurm.map", "ClusterRunSlurm.exit")
ClusterRunSlurm_exit == ViewExit("ClusterRunSlurm.exit")

(***************************************************************************)
(* ClusterChecked: the success policy.                                     *)
(***************************************************************************)
\* all written as any
all_any(r) == r = <<>> \/ \E i \in 1..Len(r) : bool(r[i])

\* all(res)
all(r) == \A i \in 1..Len(r) : bool(r[i])

\* sum([not bool(b) for b in res])
RECURSIVE CountFailed(_)
CountFailed(r) ==
    IF r = <<>> THEN 0
    ELSE (IF bool(Head(r)) THEN 0 ELSE 1) + CountFailed(Tail(r))

\* FailedParams with the filter inverted: the parameters that succeeded
RECURSIVE FailedParams_inverted(_, _, _)
FailedParams_inverted(pl, r, from) ==
    IF from > Len(r) THEN <<>>
    ELSE (IF bool(r[from]) THEN <<str(pl[from])>> ELSE <<>>)
         \o FailedParams_inverted(pl, r, from + 1)

\* [str(parameter_list[i]) for i in range(from, len(res))
\*    if not bool(res[i])], i counted from 1 here
RECURSIVE FailedParams(_, _, _)
FailedParams(pl, r, from) ==
    IF from > Len(r) THEN <<>>
    ELSE (IF bool(r[from]) THEN <<>> ELSE <<str(pl[from])>>)
         \o FailedParams(pl, r, from + 1)

\* sep.join(items)
RECURSIVE join(_, _)
join(sep, items) ==
    IF items = <<>> THEN ""
    ELSE IF Len(items) = 1 THEN items[1]
    ELSE items[1] \o sep \o join(sep, Tail(items))

\* Policy without the branch for a batch that failed entirely
Policy_noTotal(pl, r) ==
    IF all(r)
    THEN [printed |-> <<"All " \o str(Len(r)) \o " jobs successful.">>,
          exc |-> "none", msg |-> ""]
    ELSE [printed |-> <<"Error on job parameters:\n  "
                        \o join("\n  ", FailedParams(pl, r, 1))>>,
          exc |-> "RuntimeError",
          msg |-> str(CountFailed(r)) \o " of " \o str(Len(r))
                  \o " jobs failed!"]

\* the lines of ClusterChecked after the call of ClusterRun: what is
\* printed, and the exception raised ("none": the function returns None)
Policy(pl, r) ==
    IF all(r)
    THEN [printed |-> <<"All " \o str(Len(r)) \o " jobs successful.">>,
          exc |-> "none", msg |-> ""]
    ELSE LET failed == CountFailed(r)
         IN IF failed = Len(r)
            THEN [printed |-> <<>>, exc |-> "RuntimeError",
                  msg |-> "All " \o str(failed) \o " jobs failed!"]
            ELSE [printed |-> <<"Error on job parameters:\n  "
                                \o join("\n  ", FailedParams(pl, r, 1))>>,
                  exc |-> "RuntimeError",
                  msg |-> str(failed) \o " of " \o str(Len(r))
                          \o " jobs failed!"]

\* res = ClusterRun(function, parameter_list, *args, **kwargs)
ClusterChecked ==
    /\ pc = "ClusterChecked"
    /\ pc' = "ClusterRun"
    /\ stack' = Append(stack, "ClusterChecked")
    /\ UNCHANGED <<call, args, kwargs, settings, parameter_list, view,
                   view_request, map_calls, res, exc, msg, stdout, ret>>

\* the policy on the returned res; on success None is returned, through
\* ClusterCheckedSGE or ClusterCheckedSlurm when one of them is the caller
ClusterChecked_policy ==
    /\ pc = "ClusterChecked.policy"
    /\ LET p == Policy(parameter_list, res)
       IN /\ stdout' = stdout \o p.printed
          /\ IF p.exc # "none"
             THEN /\ Raise(p.exc, p.msg)
                  /\ UNCHANGED ret
             ELSE /\ pc' = "returned"
                  /\ stack' = <<>>
                  /\ ret' = [kind |-> "None"]
                  /\ UNCHANGED <<exc, msg>>
    /\ UNCHANGED <<call, args, kwargs, settings, parameter_list, view,
                   view_request, map_calls, res>>

(***************************************************************************)
(* The specification.                                                      *)
(***************************************************************************)
Next ==
    \/ ClusterCheckedSGE
    \/ ClusterCheckedSlurm
    \/ ClusterChecked
    \/ ClusterRun
    \/ ClusterRunSGE
    \/ ClusterRunSGE_map
    \/ ClusterRunSGE_exit
    \/ ClusterRunSlurm
    \/ ClusterRunSlurm_map
    \/ ClusterRunSlurm_exit
    \/ ClusterChecked_policy

Spec == Init /\ [][Next]_vars

TypeOK ==
    /\ pc \in {"ClusterCheckedSGE", "ClusterCheckedSlurm", "ClusterChecked",
               "ClusterRun", "ClusterRunSGE", "ClusterRunSlurm",
               "ClusterRunSGE.map", "ClusterRunSGE.exit",
               "ClusterRunSlurm.map", "ClusterRunSlurm.exit",
               "ClusterChecked.policy", "returned", "raised"}
    /\ view \in {"none", "open", "closed"}
    /\ Len(res) \in {0, Len(parameter_list)}

(***************************************************************************)
(* Vocabulary of the properties.                                           *)
(***************************************************************************)
\* the call has ended: a value was returned or an exception left it
Done == pc \in {"returned", "raised"}

\* the call goes through ClusterChecked
Checked ==
    call.entry \in {"ClusterChecked", "ClusterCheckedSGE", "ClusterCheckedSlurm"}

\* map has returned a result list and ClusterChecked has applied its policy
PolicyDone ==
    /\ Checked
    /\ Done
    /\ map_calls > 0
    /\ exc # "WorkerError"

\* the positions of the results that Python takes for false
Falsy == {i \in 1..Len(res) : res[i] = "False" \/ res[i] = "None"}

\* the text that lists, below its heading, the parameters at the falsy
\* positions 1..i, one per line in increasing position
RECURSIVE Listing(_)
Listing(i) ==
    IF i = 0 THEN "Error on job parameters:"
    ELSE Listing(i - 1)
         \o (IF i \in Falsy THEN "\n  " \o str(parameter_list[i]) ELSE "")

\* C1: when ClusterChecked gets n results of which k are falsy, 0 < k < n,
\* it raises RuntimeError 'k of n jobs failed!' after printing exactly the
\* parameters at the falsy positions, in increasing position, and nothing
\* else.
C1_PartialFailure ==
    (PolicyDone /\ Falsy # {} /\ Cardinality(Falsy) < Len(res))
    => /\ pc = "raised"
       /\ exc = "RuntimeError"
       /\ msg = str(Cardinality(Falsy)) \o " of " \o str(Len(res))
                \o " jobs failed!"
       /\ stdout = <<Listing(Len(res))>>

\* a batch of three whose first and last results are falsy was reported
C1_Witness ==
    /\ PolicyDone
    /\ Len(res) = 3
    /\ Falsy = {1, 3}
    /\ exc = "RuntimeError"

\* C2 as stated: n results, all of them falsy, make ClusterChecked raise
\* 'All n jobs failed!' without a success report, for every n from 0 on.
C2_AllFailedFromZero ==
    (PolicyDone /\ Cardinality(Falsy) = Len(res))
    => /\ pc = "raised"
       /\ exc = "RuntimeError"
       /\ msg = "All " \o str(Len(res)) \o " jobs failed!"
       /\ stdout = <<>>

\* C2, amended: n >= 1 results, all of them falsy, make ClusterChecked
\* raise RuntimeError 'All n jobs failed!' and print nothing.
C2_AllFailed ==
    (PolicyDone /\ Len(res) >= 1 /\ Cardinality(Falsy) = Len(res))
    => /\ pc = "raised"
       /\ exc = "RuntimeError"
       /\ msg = "All " \o str(Len(res)) \o " jobs failed!"
       /\ stdout = <<>>

\* a batch of two results, both falsy, was refused
C2_Witness ==
    /\ PolicyDone
    /\ Len(res) = 2
    /\ Falsy = {1, 2}
    /\ exc = "RuntimeError"

\* C3: when every result is truthy ClusterChecked raises nothing, returns
\* None and prints the success report with the count len(parameter_list);
\* and it returns normally only when map returned and no result is falsy.
C3_AllSuccessful ==
    /\ (PolicyDone /\ Falsy = {})
       => /\ pc = "returned"
          /\ exc = "none"
          /\ ret = [kind |-> "None"]
          /\ stdout = <<"All " \o str(Len(parameter_list))
                        \o " jobs successful.">>
    /\ (Checked /\ pc = "returned")
       => /\ map_calls > 0
          /\ Len(res) = Len(parameter_list)
          /\ Falsy = {}

\* a batch of three truthy results was reported successful
C3_Witness ==
    /\ PolicyDone
    /\ Len(res) = 3
    /\ Falsy = {}
    /\ pc = "returned"
    /\ stdout # <<>>

\* the max_jobs a backend works with: its positional or keyword argument,
\* else the default of its signature
BackendMaxJobs ==
    IF Len(args) > 2 THEN args[3]
    ELSE IF "max_jobs" \in DOMAIN kwargs THEN kwargs.max_jobs
    ELSE IF view_request.scheduler = "sge" THEN 100 ELSE 64

\* C4: the num_jobs a backend requests is min(n, m) for n parameters and
\* max_jobs m: it is n or m, at most n and at most m, whichever function
\* the call came through.
C4_NumJobs ==
    DOMAIN view_request # {}
    => /\ view_request.num_jobs \in {Len(parameter_list), BackendMaxJobs}
       /\ view_request.num_jobs <= Len(parameter_list)
       /\ view_request.num_jobs <= BackendMaxJobs

\* ClusterChecked asked Slurm for two jobs for three parameters
C4_Witness ==
    /\ call.entry = "ClusterChecked"
    /\ DOMAIN view_request # {}
    /\ view_request.scheduler = "slurm"
    /\ Len(parameter_list) = 3
    /\ BackendMaxJobs = 2
    /\ view_request.num_jobs = 2

\* ClusterRun has run in a call that goes through it
PastClusterRun ==
    /\ call.entry \in DispatchEntries
    /\ pc \notin {"ClusterCheckedSGE", "ClusterCheckedSlurm",
                  "ClusterChecked", "ClusterRun"}

\* the caller supplied a settings object
Supplied == "settings" \in DOMAIN call.kwargs

\* control is at the head of a backend, its arguments just passed
AtBackend == pc \in {"ClusterRunSGE", "ClusterRunSlurm"}

\* the value of a resource parameter by the stated precedence: positional,
\* else keyword, else settings attribute, else the hardcoded default
Expected(name) ==
    IF Len(call.args) > ArgIndex(name) THEN call.args[ArgIndex(name) + 1]
    ELSE IF name \in DOMAIN call.kwargs THEN call.kwargs[name]
    ELSE IF Supplied /\ name \in DOMAIN call.settings
         THEN call.settings[name]
    ELSE CASE name = "max_jobs" -> 100
           [] name = "cores_per_job" -> 1
           [] name = "mem" -> "5GB"

\* C5: however max_jobs, cores_per_job and mem are supplied, the call does
\* not fail because of it (no TypeError) and the backend gets, for each,
\* the value of the precedence positional, keyword, settings, default.
\* Stated for the calls whose scheduler lookup succeeds.
C5_ResourcePrecedence ==
    (PastClusterRun
     /\ (Supplied => /\ "scheduler" \in DOMAIN settings
                     /\ settings.scheduler \in DOMAIN mapping))
    => /\ exc # "TypeError"
       /\ AtBackend => \A name \in DOMAIN kwargs : kwargs[name] = Expected(name)

\* C6: with no settings object, or with one that has no scheduler
\* attribute, ClusterRun raises nothing of its own for the lookup and
\* dispatches to ClusterRunSGE.
C6_DefaultBackendSGE ==
    (PastClusterRun
     /\ call.entry \in {"ClusterRun", "ClusterChecked"}
     /\ (~Supplied \/ "scheduler" \notin DOMAIN call.settings))
    => /\ exc # "AttributeError"
       /\ AtBackend => pc = "ClusterRunSGE"

\* C7: settings.scheduler = 'slurm' dispatches to ClusterRunSlurm and
\* settings.scheduler = 'SGE' to ClusterRunSGE; neither tag is refused.
C7_DocumentedTags ==
    (PastClusterRun
     /\ call.entry \in {"ClusterRun", "ClusterChecked"}
     /\ Supplied
     /\ "scheduler" \in DOMAIN call.settings
     /\ call.settings.scheduler \in {"slurm", "SGE"})
    => /\ ~(exc = "KeyError" /\ msg = call.settings.scheduler)
       /\ AtBackend => pc = (IF call.settings.scheduler = "slurm"
                             THEN "ClusterRunSlurm" ELSE "ClusterRunSGE")

\* control is inside the with block of a backend
InWith == pc \in {"ClusterRunSGE.map", "ClusterRunSGE.exit",
                  "ClusterRunSlurm.map", "ClusterRunSlurm.exit"}

\* control has left the backend, or never entered one
Outside == pc \in {"ClusterChecked.policy", "returned", "raised"}

C8_State ==
    /\ InWith => (view = "open" /\ DOMAIN view_request # {})
    /\ Outside => view # "open"
    /\ (Outside /\ map_calls > 0) => view = "closed"
    /\ (Outside /\ exc = "WorkerError")
       => (pc = "raised" /\ ret = [kind |-> "pending"])

C8_Step ==
    /\ map_calls' # map_calls
       => (view = "open" /\ view' = "open" /\ DOMAIN view_request # {})
    /\ (view = "none" /\ view' # "none")
       => (view' = "open" /\ map_calls = 0)

\* C8: the view is acquired before map, map is called only while the view
\* is open, the view is released on every way out of the backend, and an
\* exception of map leaves the call as an exception, with no result list.
C8_ScopedView == []C8_State /\ [][C8_Step]_vars

\* an exception of map has left the call and the view is released
C8_Witness ==
    /\ pc = "raised"
    /\ exc = "WorkerError"
    /\ view = "closed"
    /\ map_calls = 1

\* the call came through one of the two forcing variants
Forced == call.entry \in {"ClusterCheckedSGE", "ClusterCheckedSlurm"}

\* the tag the variant forces
Tag == IF call.entry = "ClusterCheckedSGE" THEN "sge" ELSE "slurm"

\* C9: once ClusterCheckedSGE (ClusterCheckedSlurm) has set the tag, the
\* settings object has scheduler 'sge' ('slurm') and otherwise exactly the
\* attributes the caller gave it, what is delegated is a call of
\* ClusterChecked with the same arguments, the scheduler lookup never
\* fails, the backend reached is the forced one, the view it asks for is
\* the forced scheduler's with the resources resolved from those
\* attributes, and None is what is returned.
C9_ForcedBackend ==
    (Forced /\ pc # call.entry)
    => /\ "scheduler" \in DOMAIN settings
       /\ settings.scheduler = Tag
       /\ \A k \in ResourceNames :
              IF Supplied /\ k \in DOMAIN call.settings
              THEN k \in DOMAIN settings /\ settings[k] = call.settings[k]
              ELSE k \notin DOMAIN settings
       /\ pc = "ClusterChecked"
          => [entry |-> "ClusterChecked", n |-> call.n, args |-> args,
              kwargs |-> kwargs, settings |-> settings] \in Calls
       /\ exc # "AttributeError"
       /\ ~(exc = "KeyError" /\ msg # "USER")
       /\ AtBackend => pc = mapping[Tag]
       /\ DOMAIN view_request # {}
          => /\ view_request.scheduler = Tag
             /\ view_request.cores_per_job = Expected("cores_per_job")
             /\ view_request.num_jobs =
                    (IF Len(parameter_list) < Expected("max_jobs")
                     THEN Len(parameter_list) ELSE Expected("max_jobs"))
             /\ Tag = "slurm"
                => view_request.resources =
                      "account=user;timelimit=7-00:00:00;mem="
                      \o Expected("mem")
       /\ pc = "returned" => ret = [kind |-> "None"]

\* ClusterCheckedSGE ran a batch on SGE with a settings object that named
\* slurm
C9_Witness ==
    /\ call.entry = "ClusterCheckedSGE"
    /\ Supplied
    /\ "scheduler" \in DOMAIN call.settings
    /\ call.settings.scheduler = "slurm"
    /\ "max_jobs" \in DOMAIN call.settings
    /\ DOMAIN view_request # {}
    /\ view_request.scheduler = "sge"
    /\ pc = "returned"

C10_State ==
    Checked
    => /\ map_calls <= 1
       /\ (stdout # <<>> \/ exc = "RuntimeError"
           \/ pc = "ClusterChecked.policy")
          => /\ view = "closed"
             /\ map_calls = 1
             /\ exc # "WorkerError"
             /\ Len(res) = Len(parameter_list)
       /\ exc = "WorkerError"
          => /\ stdout = <<>>
             /\ msg = ""
             /\ pc \in {"ClusterRunSGE.exit", "ClusterRunSlurm.exit", "raised"}

C10_Step ==
    (Checked /\ exc = "WorkerError")
    => (exc' = "WorkerError" /\ map_calls' = map_calls /\ stdout' = stdout)

\* C10: ClusterChecked reports or raises its policy error only after the
\* one map call has returned a result for every parameter and the view is
\* released; when map raises nothing is printed, no policy error is
\* raised, map is not called again and that exception leaves the call.
C10_PolicyAfterMap == []C10_State /\ [][C10_Step]_vars

\* an exception of map has left a call of ClusterChecked
C10_Witness ==
    /\ Checked
    /\ exc = "WorkerError"
    /\ pc = "raised"
    /\ Len(parameter_list) > 0

====
